---- MODULE Spec2Model ----
(***************************************************************************)
(* Model of the Labyrinth's Room (src/src/room.cpp) and of the             *)
(* LabyrinthMap with its polymorphic map cells                             *)
(* (src/include/labyrinth_map.hpp).                                        *)
(*                                                                         *)
(* room.cpp is modelled from its code.  Of the map, the header gives the   *)
(* cell classes (the throwing base class, which methods each variant       *)
(* overrides, and every field's initial value); the bodies of the variant  *)
(* methods and of the LabyrinthMap methods are not in the header and are   *)
(* modelled from the design document.                                      *)
(***************************************************************************)
EXTENDS Integers, Sequences, FiniteSets, TLC

\* ------------------------------------------------------------------ bounds

\* A Labyrinth has at most MaxRooms Rooms (x_size * y_size <= MaxRooms).
MaxRooms == 2

\* Update() is called at most MaxUpdates times in a run.
MaxUpdates == 2

\* Labyrinth sizes tried by the coordinate conversions: 1 .. MaxSize each way.
MaxSize == 2

\* Coordinates handed to the conversions range over -1 .. MaxCoord.
MaxCoord == 6

\* ------------------------------------------------------------ enumerations

Direction == {"kNorth", "kEast", "kSouth", "kWest", "kNone"}

Cardinal == <<"kNorth", "kEast", "kSouth", "kWest">>

CardinalSet == {"kNorth", "kEast", "kSouth", "kWest"}

RoomBorder == {"kExit", "kRoom", "kWall"}

Inhabitant == {"kNone", "kMinotaur"}

Item == {"kNone", "kTreasure"}

\* ------------------------------------------------------- calls and results

\* A call that returned v.
Return(v) == [status |-> "ok", value |-> v]

\* A call that threw exception e.
Throw(e) == [status |-> e, value |-> "none"]

\* A map-cell method's outcome: what it returned or threw, and the cell after.
CellReturn(v, c) == [status |-> "ok", value |-> v, cell |-> c]

CellThrow(e, c) == [status |-> e, value |-> "none", cell |-> c]

\* --------------------------------------------------------------------- Room

\* Room::Room: the seven fields are set from the arguments, unvalidated.
Room(dark_thing, object, exit, wall_north, wall_east, wall_south, wall_west) ==
    [dark_thing_ |-> dark_thing, object_ |-> object, exit_ |-> exit,
     wall_north_ |-> wall_north, wall_east_ |-> wall_east,
     wall_south_ |-> wall_south, wall_west_ |-> wall_west]

GetInhabitant(r) == r.dark_thing_

SetInhabitant(r, inh) == [r EXCEPT !.dark_thing_ = inh]

GetItem(r) == r.object_

SetItem(r, itm) == [r EXCEPT !.object_ = itm]

\* Mutant: the exit comparison made before the kNone check.
DirectionCheck_ExitFirst(r, d) ==
    IF d = r.exit_ THEN Return("kExit")
    ELSE IF d = "kNone" THEN Throw("invalid_argument")
    ELSE IF \/ (d = "kNorth" /\ ~r.wall_north_)
            \/ (d = "kEast"  /\ ~r.wall_east_)
            \/ (d = "kSouth" /\ ~r.wall_south_)
            \/ (d = "kWest"  /\ ~r.wall_west_)
         THEN Return("kRoom")
    ELSE Return("kWall")

\* Mutant: the wall flags consulted before the exit comparison.
DirectionCheck_WallFirst(r, d) ==
    IF d = "kNone" THEN Throw("invalid_argument")
    ELSE IF \/ (d = "kNorth" /\ r.wall_north_)
            \/ (d = "kEast"  /\ r.wall_east_)
            \/ (d = "kSouth" /\ r.wall_south_)
            \/ (d = "kWest"  /\ r.wall_west_)
         THEN Return("kWall")
    ELSE IF d = r.exit_ THEN Return("kExit")
    ELSE Return("kRoom")

\* Mutant: the wall flags read without their negation.
DirectionCheck_NoNegation(r, d) ==
    IF d = "kNone" THEN Throw("invalid_argument")
    ELSE IF d = r.exit_ THEN Return("kExit")
    ELSE IF \/ (d = "kNorth" /\ r.wall_north_)
            \/ (d = "kEast"  /\ r.wall_east_)
            \/ (d = "kSouth" /\ r.wall_south_)
            \/ (d = "kWest"  /\ r.wall_west_)
         THEN Return("kRoom")
    ELSE Return("kWall")

\* Room::DirectionCheck.
DirectionCheck(r, d) ==
    IF d = "kNone" THEN Throw("invalid_argument")
    ELSE IF d = r.exit_ THEN Return("kExit")
    ELSE IF \/ (d = "kNorth" /\ ~r.wall_north_)
            \/ (d = "kEast"  /\ ~r.wall_east_)
            \/ (d = "kSouth" /\ ~r.wall_south_)
            \/ (d = "kWest"  /\ ~r.wall_west_)
         THEN Return("kRoom")
    ELSE Return("kWall")

\* ---------------------------------------------------------------- map cells

\* Mutant: a Border that starts without its north wall.
LabyrinthMapCoordinateBorder_NoNorth ==
    [kind |-> "Border", wall_north_ |-> FALSE, wall_east_ |-> TRUE,
     wall_south_ |-> TRUE, wall_west_ |-> TRUE, exit_ |-> FALSE]

\* Mutant: a Border that starts with no walls at all.
LabyrinthMapCoordinateBorder_NoWalls ==
    [kind |-> "Border", wall_north_ |-> FALSE, wall_east_ |-> FALSE,
     wall_south_ |-> FALSE, wall_west_ |-> FALSE, exit_ |-> FALSE]

\* A newly allocated Border cell: the class's default member initialisers.
LabyrinthMapCoordinateBorder ==
    [kind |-> "Border", wall_north_ |-> TRUE, wall_east_ |-> TRUE,
     wall_south_ |-> TRUE, wall_west_ |-> TRUE, exit_ |-> FALSE]

\* A newly allocated Room cell: the class's default member initialisers.
LabyrinthMapCoordinateRoom ==
    [kind |-> "Room", i_ |-> "kNone", treasure_ |-> FALSE]

\* The base class's methods: each throws logic_error and touches nothing.
Base_IsWall(c, d) == CellThrow("logic_error", c)

Base_RemoveWall(c, d) == CellThrow("logic_error", c)

Base_IsExit(c) == CellThrow("logic_error", c)

Base_SetExit(c, b) == CellThrow("logic_error", c)

Base_HasInhabitant(c) == CellThrow("logic_error", c)

Base_SetInhabitant(c, inh) == CellThrow("logic_error", c)

\* Mutant: a base HasTreasure that answers false instead of throwing.
Base_HasTreasure_NoThrow(c) == CellReturn(FALSE, c)

Base_HasTreasure(c) == CellThrow("logic_error", c)

Base_SetTreasure(c, b) == CellThrow("logic_error", c)

\* The wall flag of Border cell c towards d (d a cardinal direction).
WallFlag(c, d) ==
    CASE d = "kNorth" -> c.wall_north_
      [] d = "kEast"  -> c.wall_east_
      [] d = "kSouth" -> c.wall_south_
      [] d = "kWest"  -> c.wall_west_

\* The Border variant's own methods.
Border_IsWall(c, d) ==
    IF d = "kNone" THEN CellThrow("invalid_argument", c)
    ELSE CellReturn(WallFlag(c, d), c)

Border_RemoveWall(c, d) ==
    CASE d = "kNone"  -> CellThrow("invalid_argument", c)
      [] d = "kNorth" -> CellReturn("none", [c EXCEPT !.wall_north_ = FALSE])
      [] d = "kEast"  -> CellReturn("none", [c EXCEPT !.wall_east_ = FALSE])
      [] d = "kSouth" -> CellReturn("none", [c EXCEPT !.wall_south_ = FALSE])
      [] d = "kWest"  -> CellReturn("none", [c EXCEPT !.wall_west_ = FALSE])

Border_IsExit(c) == CellReturn(c.exit_, c)

Border_SetExit(c, b) == CellReturn("none", [c EXCEPT !.exit_ = b])

\* The Room variant's own methods.
MapRoom_HasInhabitant(c) == CellReturn(c.i_, c)

MapRoom_SetInhabitant(c, inh) == CellReturn("none", [c EXCEPT !.i_ = inh])

MapRoom_HasTreasure(c) == CellReturn(c.treasure_, c)

MapRoom_SetTreasure(c, b) == CellReturn("none", [c EXCEPT !.treasure_ = b])

\* Virtual dispatch: the Border class overrides the four Border-only methods,
\* the Room class the four Room-only ones; the rest fall to the base class.
IsWall(c, d) ==
    IF c.kind = "Border" THEN Border_IsWall(c, d) ELSE Base_IsWall(c, d)

RemoveWall(c, d) ==
    IF c.kind = "Border" THEN Border_RemoveWall(c, d) ELSE Base_RemoveWall(c, d)

IsExit(c) ==
    IF c.kind = "Border" THEN Border_IsExit(c) ELSE Base_IsExit(c)

SetExit(c, b) ==
    IF c.kind = "Border" THEN Border_SetExit(c, b) ELSE Base_SetExit(c, b)

HasInhabitant(c) ==
    IF c.kind = "Room" THEN MapRoom_HasInhabitant(c) ELSE Base_HasInhabitant(c)

\* Mutant: a Room variant that does not override SetInhabitant.
Cell_SetInhabitant_NotOverridden(c, inh) == Base_SetInhabitant(c, inh)

Cell_SetInhabitant(c, inh) ==
    IF c.kind = "Room" THEN MapRoom_SetInhabitant(c, inh)
    ELSE Base_SetInhabitant(c, inh)

HasTreasure(c) ==
    IF c.kind = "Room" THEN MapRoom_HasTreasure(c) ELSE Base_HasTreasure(c)

SetTreasure(c, b) ==
    IF c.kind = "Room" THEN MapRoom_SetTreasure(c, b) ELSE Base_SetTreasure(c, b)

\* -------------------------------------------------------------------- state

VARIABLES
    x_size_,     \* the Labyrinth's logical width
    y_size_,     \* the Labyrinth's logical height
    labyrinth,   \* the Labyrinth's Rooms, by logical Coordinate
    map_,        \* the LabyrinthMap's cells, by physical Coordinate
    updates,     \* how many times Update() has run
    cell,        \* a map cell on its own (the cell classes' methods)
    coord,       \* a Coordinate passed by reference to the conversions
    call,        \* the last operation called, with its arguments
    result       \* what that operation returned or threw

vars == <<x_size_, y_size_, labyrinth, map_, updates, cell, coord, call, result>>

\* ------------------------------------------------------------- LabyrinthMap

Coordinate(x, y) == [x |-> x, y |-> y]

map_x_size_ == 2 * x_size_ + 1

map_y_size_ == 2 * y_size_ + 1

\* The logical Coordinates of an xs by ys Labyrinth.
LabyrinthCoordinates(xs, ys) ==
    {Coordinate(x, y) : x \in 0 .. xs - 1, y \in 0 .. ys - 1}

\* The physical Coordinates of its map.
MapCoordinates(xs, ys) ==
    {Coordinate(x, y) : x \in 0 .. 2 * xs, y \in 0 .. 2 * ys}

\* Mutant: bounds that admit the first coordinate past each edge.
WithinBoundsOfMap_OffByOne(c) ==
    /\ 0 <= c.x /\ c.x <= map_x_size_
    /\ 0 <= c.y /\ c.y <= map_y_size_

WithinBoundsOfMap(c) ==
    /\ 0 <= c.x /\ c.x < map_x_size_
    /\ 0 <= c.y /\ c.y < map_y_size_

IsRoom(c) ==
    IF ~WithinBoundsOfMap(c) THEN Throw("domain_error")
    ELSE Return(c.x % 2 = 1 /\ c.y % 2 = 1)

MapCoordinateAt(m, c) ==
    IF ~WithinBoundsOfMap(c) THEN Throw("domain_error") ELSE Return(m[c])

LabyrinthToMap(c) ==
    IF ~(0 <= c.x /\ c.x < x_size_ /\ 0 <= c.y /\ c.y < y_size_)
    THEN Throw("invalid_argument")
    ELSE Return(Coordinate(2 * c.x + 1, 2 * c.y + 1))

\* Mutant: a conversion that rounds the halved coordinate up.
MapToLabyrinth_RoundUp(c) ==
    IF ~WithinBoundsOfMap(c) THEN Throw("domain_error")
    ELSE IF ~IsRoom(c).value THEN Throw("logic_error")
    ELSE Return(Coordinate((c.x + 1) \div 2, (c.y + 1) \div 2))

MapToLabyrinth(c) ==
    IF ~WithinBoundsOfMap(c) THEN Throw("domain_error")
    ELSE IF ~IsRoom(c).value THEN Throw("logic_error")
    ELSE Return(Coordinate((c.x - 1) \div 2, (c.y - 1) \div 2))

\* The constructor's allocation: a Room cell where both coordinates are odd,
\* a Border cell everywhere else.
NewMap(xs, ys) ==
    [c \in MapCoordinates(xs, ys) |->
        IF c.x % 2 = 1 /\ c.y % 2 = 1 THEN LabyrinthMapCoordinateRoom
        ELSE LabyrinthMapCoordinateBorder]

\* One physical step from c towards d: north is up the map (towards row 0).
Step(c, d) ==
    CASE d = "kNorth" -> Coordinate(c.x, c.y - 1)
      [] d = "kEast"  -> Coordinate(c.x + 1, c.y)
      [] d = "kSouth" -> Coordinate(c.x, c.y + 1)
      [] d = "kWest"  -> Coordinate(c.x - 1, c.y)

\* Update(), one direction of one Room: the Border cell one step that way
\* loses its wall unless the Room reports a wall, and becomes the exit when
\* the Room reports the exit.
UpdateBorder(m, r, p, d) ==
    LET b == DirectionCheck(r, d).value
        q == Step(p, d)
    IN  IF b = "kWall" THEN m
        ELSE IF b = "kRoom" THEN [m EXCEPT ![q] = RemoveWall(m[q], d).cell]
        ELSE [m EXCEPT ![q] = SetExit(RemoveWall(m[q], d).cell, TRUE).cell]

RECURSIVE UpdateBorders(_, _, _, _)
UpdateBorders(m, r, p, ds) ==
    IF ds = <<>> THEN m
    ELSE UpdateBorders(UpdateBorder(m, r, p, Head(ds)), r, p, Tail(ds))

\* Update(), one Room: its inhabitant and item go to its Room cell, then its
\* four directions to the Border cells around it.
UpdateRoom(m, l, c) ==
    LET r  == l[c]
        p  == LabyrinthToMap(c).value
        c1 == Cell_SetInhabitant(m[p], GetInhabitant(r)).cell
        c2 == SetTreasure(c1, GetItem(r) # "kNone").cell
    IN  UpdateBorders([m EXCEPT ![p] = c2], r, p, Cardinal)

\* The Rooms in the order Update() visits them: row by row.
RoomOrder(xs, ys) ==
    [k \in 1 .. xs * ys |-> Coordinate((k - 1) % xs, (k - 1) \div xs)]

RECURSIVE UpdateRooms(_, _, _)
UpdateRooms(m, l, todo) ==
    IF todo = <<>> THEN m
    ELSE UpdateRooms(UpdateRoom(m, l, Head(todo)), l, Tail(todo))

\* LabyrinthMap::Update.
UpdatedMap(m, l) == UpdateRooms(m, l, RoomOrder(x_size_, y_size_))

\* ------------------------------------------------------------ initial states

NoCall == [op |-> "none"]

\* What is kept of a call once the next one is made.
Summary(c, r) == [op |-> c.op, before |-> c.before, status |-> r.status]

NoResult == Return("none")

\* The sizes a Labyrinth of at most MaxRooms Rooms can have.
Shapes == {s \in (1 .. MaxRooms) \X (1 .. MaxRooms) : s[1] * s[2] <= MaxRooms}

\* Every Room the constructor can build with nobody and nothing in it.
EmptyRooms ==
    {Room("kNone", "kNone", e, wn, we, ws, ww) :
        e \in Direction, wn \in BOOLEAN, we \in BOOLEAN,
        ws \in BOOLEAN, ww \in BOOLEAN}

\* Every fully walled Room without an exit.
ClosedRooms ==
    {Room(i, o, "kNone", TRUE, TRUE, TRUE, TRUE) : i \in Inhabitant, o \in Item}

\* Every Room the constructor can build.
AllRooms ==
    {Room(i, o, e, wn, we, ws, ww) :
        i \in Inhabitant, o \in Item, e \in Direction, wn \in BOOLEAN,
        we \in BOOLEAN, ws \in BOOLEAN, ww \in BOOLEAN}

\* A Labyrinth of Rooms drawn from rs, and the map just allocated for it.
InitMap(shapes, rs) ==
    /\ \E s \in shapes : x_size_ = s[1] /\ y_size_ = s[2]
    /\ labyrinth \in [LabyrinthCoordinates(x_size_, y_size_) -> rs]
    /\ map_ = NewMap(x_size_, y_size_)
    /\ updates = 0
    /\ cell = LabyrinthMapCoordinateBorder
    /\ coord = Coordinate(0, 0)
    /\ call = NoCall
    /\ result = NoResult

\* Walls and exits of every kind; the Rooms are empty.
Init == InitMap(Shapes, EmptyRooms)

\* ------------------------------------------------------------------ actions

\* LabyrinthMap::Update.
Update ==
    /\ updates < MaxUpdates
    /\ map_' = UpdatedMap(map_, labyrinth)
    /\ updates' = updates + 1
    /\ call' = [op |-> "Update", before |-> map_]
    /\ result' = NoResult
    /\ UNCHANGED <<x_size_, y_size_, labyrinth, cell, coord>>

\* The Room methods, called on the Room at logical Coordinate c.
CallDirectionCheck ==
    \E c \in DOMAIN labyrinth, d \in Direction :
        /\ result' = DirectionCheck(labyrinth[c], d)
        /\ call' = [op |-> "DirectionCheck", c |-> c, d |-> d]
        /\ UNCHANGED <<x_size_, y_size_, labyrinth, map_, updates, cell, coord>>

CallGetInhabitant ==
    \E c \in DOMAIN labyrinth :
        /\ result' = Return(GetInhabitant(labyrinth[c]))
        /\ call' = [op |-> "GetInhabitant", c |-> c]
        /\ UNCHANGED <<x_size_, y_size_, labyrinth, map_, updates, cell, coord>>

CallSetInhabitant ==
    \E c \in DOMAIN labyrinth, inh \in Inhabitant :
        /\ labyrinth' = [labyrinth EXCEPT ![c] = SetInhabitant(@, inh)]
        /\ call' = [op |-> "SetInhabitant", c |-> c, inh |-> inh]
        /\ result' = NoResult
        /\ UNCHANGED <<x_size_, y_size_, map_, updates, cell, coord>>

CallGetItem ==
    \E c \in DOMAIN labyrinth :
        /\ result' = Return(GetItem(labyrinth[c]))
        /\ call' = [op |-> "GetItem", c |-> c]
        /\ UNCHANGED <<x_size_, y_size_, labyrinth, map_, updates, cell, coord>>

CallSetItem ==
    \E c \in DOMAIN labyrinth, itm \in Item :
        /\ labyrinth' = [labyrinth EXCEPT ![c] = SetItem(@, itm)]
        /\ call' = [op |-> "SetItem", c |-> c, itm |-> itm]
        /\ result' = NoResult
        /\ UNCHANGED <<x_size_, y_size_, map_, updates, cell, coord>>

\* A map-cell method called on the cell: r is its outcome.
CellCall(op, arg, r) ==
    /\ cell' = r.cell
    /\ result' = [status |-> r.status, value |-> r.value]
    /\ call' = [op |-> op, arg |-> arg, before |-> cell]
    /\ UNCHANGED <<x_size_, y_size_, labyrinth, map_, updates, coord>>

CellIsWall == \E d \in Direction : CellCall("IsWall", d, IsWall(cell, d))

CellRemoveWall == \E d \in Direction : CellCall("RemoveWall", d, RemoveWall(cell, d))

CellIsExit == CellCall("IsExit", "none", IsExit(cell))

CellSetExit == \E b \in BOOLEAN : CellCall("SetExit", b, SetExit(cell, b))

CellHasInhabitant == CellCall("HasInhabitant", "none", HasInhabitant(cell))

CellSetInhabitant ==
    \E inh \in Inhabitant : CellCall("SetInhabitant", inh, Cell_SetInhabitant(cell, inh))

CellHasTreasure == CellCall("HasTreasure", "none", HasTreasure(cell))

CellSetTreasure == \E b \in BOOLEAN : CellCall("SetTreasure", b, SetTreasure(cell, b))

\* The LabyrinthMap's coordinate methods, called on coord.
CallIsRoom ==
    /\ result' = IsRoom(coord)
    /\ call' = [op |-> "IsRoom", before |-> coord, prev |-> Summary(call, result)]
    /\ UNCHANGED <<x_size_, y_size_, labyrinth, map_, updates, cell, coord>>

\* A conversion rewrites the Coordinate it is given, unless it throws.
Convert(op, r) ==
    /\ coord' = IF r.status = "ok" THEN r.value ELSE coord
    /\ result' = [status |-> r.status, value |-> "none"]
    /\ call' = [op |-> op, before |-> coord, prev |-> Summary(call, result)]
    /\ UNCHANGED <<x_size_, y_size_, labyrinth, map_, updates, cell>>

CallLabyrinthToMap == Convert("LabyrinthToMap", LabyrinthToMap(coord))

CallMapToLabyrinth == Convert("MapToLabyrinth", MapToLabyrinth(coord))

\* ----------------------------------------------------------- specifications

\* The map of a Labyrinth with walls and exits of every kind.
Next == Update

Spec == Init /\ [][Next]_vars

\* One Room of every kind, and its methods.
InitRoom == InitMap({<<1, 1>>}, AllRooms)

NextRoom ==
    \/ CallDirectionCheck
    \/ CallGetInhabitant
    \/ CallSetInhabitant
    \/ CallGetItem
    \/ CallSetItem

SpecRoom == InitRoom /\ [][NextRoom]_vars

\* The map of a Labyrinth whose inhabitants and items change: Labyrinths of
\* every size with closed Rooms, and the one-Room Labyrinth with walls and
\* exit of every kind.
InitOccupants == InitMap(Shapes, ClosedRooms) \/ InitMap({<<1, 1>>}, AllRooms)

NextOccupants ==
    \/ CallSetInhabitant
    \/ CallSetItem
    \/ Update

SpecOccupants == InitOccupants /\ [][NextOccupants]_vars

\* One map cell of either variant, and the eight cell methods.
InitCell ==
    /\ x_size_ = 1
    /\ y_size_ = 1
    /\ labyrinth \in [LabyrinthCoordinates(1, 1) -> {Room("kNone", "kNone", "kNone", TRUE, TRUE, TRUE, TRUE)}]
    /\ map_ = NewMap(1, 1)
    /\ updates = 0
    /\ cell \in {LabyrinthMapCoordinateBorder, LabyrinthMapCoordinateRoom}
    /\ coord = Coordinate(0, 0)
    /\ call = NoCall
    /\ result = NoResult

NextCell ==
    \/ CellIsWall
    \/ CellRemoveWall
    \/ CellIsExit
    \/ CellSetExit
    \/ CellHasInhabitant
    \/ CellSetInhabitant
    \/ CellHasTreasure
    \/ CellSetTreasure

SpecCell == InitCell /\ [][NextCell]_vars

\* A map of every size up to MaxSize, and the coordinate methods on
\* Coordinates inside and outside it.
InitCoord ==
    /\ x_size_ \in 1 .. MaxSize
    /\ y_size_ \in 1 .. MaxSize
    /\ labyrinth \in [LabyrinthCoordinates(x_size_, y_size_) -> {Room("kNone", "kNone", "kNone", TRUE, TRUE, TRUE, TRUE)}]
    /\ map_ = NewMap(x_size_, y_size_)
    /\ updates = 0
    /\ cell = LabyrinthMapCoordinateBorder
    /\ coord \in {Coordinate(x, y) : x \in -1 .. MaxCoord, y \in -1 .. MaxCoord}
    /\ call = [op |-> "none", before |-> coord]
    /\ result = NoResult

NextCoord ==
    \/ CallIsRoom
    \/ CallLabyrinthToMap
    \/ CallMapToLabyrinth

SpecCoord == InitCoord /\ [][NextCoord]_vars

\* ------------------------------------------------------------------- claims

\* The wall flag Room r holds for cardinal direction d.
HasWall(r, d) ==
    CASE d = "kNorth" -> r.wall_north_
      [] d = "kEast"  -> r.wall_east_
      [] d = "kSouth" -> r.wall_south_
      [] d = "kWest"  -> r.wall_west_

Opposite(d) ==
    CASE d = "kNorth" -> "kSouth"
      [] d = "kEast"  -> "kWest"
      [] d = "kSouth" -> "kNorth"
      [] d = "kWest"  -> "kEast"

\* The physical Room cell of the Room at logical Coordinate c.
RoomCell(c) == Coordinate(2 * c.x + 1, 2 * c.y + 1)

\* The physical Coordinates of the Border cells.
BorderCells == {p \in DOMAIN map_ : ~(p.x % 2 = 1 /\ p.y % 2 = 1)}

\* Border cell b answers v to IsWall(d).
WallIs(b, d, v) == IsWall(b, d).status = "ok" /\ IsWall(b, d).value = v

\* Border cell b answers v to IsExit().
ExitIs(b, v) == IsExit(b).status = "ok" /\ IsExit(b).value = v

\* C1: DirectionCheck(d), d one of North, East, South, West, returns Exit
\* when d is the Room's exit direction, whatever the wall flag for d;
\* otherwise Room when the wall flag for d is false and Wall when it is true.
C1_DirectionCheckClassifies ==
    (call.op = "DirectionCheck" /\ call.d \in CardinalSet) =>
        LET r == labyrinth[call.c]
        IN  /\ result.status = "ok"
            /\ result.value = IF call.d = r.exit_ THEN "kExit"
                              ELSE IF ~HasWall(r, call.d) THEN "kRoom"
                              ELSE "kWall"

\* C1's case: the exit direction was asked for while its wall flag is set.
C1_Witness ==
    /\ call.op = "DirectionCheck"
    /\ call.d = "kNorth"
    /\ labyrinth[call.c].exit_ = "kNorth"
    /\ labyrinth[call.c].wall_north_
    /\ result = Return("kExit")

\* C2: DirectionCheck(None) throws invalid_argument for every Room, also for
\* a Room whose exit direction is None: it never returns Exit for None.
C2_DirectionCheckNoneThrows ==
    (call.op = "DirectionCheck" /\ call.d = "kNone") =>
        result = Throw("invalid_argument")

\* C2's case: None was asked of a Room whose exit direction is None.
C2_Witness ==
    /\ call.op = "DirectionCheck"
    /\ call.d = "kNone"
    /\ labyrinth[call.c].exit_ = "kNone"
    /\ result.status = "invalid_argument"

\* C3, the general part: after Update(), for Rooms R1 and R2 adjacent in
\* direction d with R1.DirectionCheck(d) != Wall, the Border cell one step
\* from R1 towards d is the cell one step from R2 towards R1, and it has
\* IsWall(d) false.
C3_SharedBorderOpen ==
    \A c \in DOMAIN labyrinth, d \in CardinalSet :
        (Step(c, d) \in DOMAIN labyrinth
            /\ DirectionCheck(labyrinth[c], d).value # "kWall") =>
            LET fromR1 == Step(RoomCell(c), d)
                fromR2 == Step(RoomCell(Step(c, d)), Opposite(d))
            IN  /\ fromR1 = fromR2
                /\ WallIs(map_[fromR1], d, FALSE)
                /\ WallIs(map_[fromR2], d, FALSE)

\* C3, the example: Border cell (2,1) between Room(0,0) and Room(1,0) has no
\* wall to the east, none to the west, and is not the exit.
C3_ExampleCell ==
    LET b == map_[Coordinate(2, 1)]
    IN  WallIs(b, "kEast", FALSE) /\ WallIs(b, "kWest", FALSE) /\ ExitIs(b, FALSE)

C4_ExitCells ==
    updates >= 1 =>
        /\ \A c \in DOMAIN labyrinth :
            labyrinth[c].exit_ # "kNone" =>
                LET b == map_[Step(RoomCell(c), labyrinth[c].exit_)]
                IN  ExitIs(b, TRUE) /\ WallIs(b, labyrinth[c].exit_, FALSE)
        /\ \A p \in BorderCells :
            ExitIs(map_[p], TRUE) =>
                \E c \in DOMAIN labyrinth, d \in CardinalSet :
                    /\ Step(RoomCell(c), d) = p
                    /\ DirectionCheck(labyrinth[c], d) = Return("kExit")

\* C4's case: Update() has run on a Labyrinth with a Room whose exit is to
\* the north, where its wall flag is set too.
C4_Witness ==
    /\ updates >= 1
    /\ \E c \in DOMAIN labyrinth :
        /\ labyrinth[c].exit_ = "kNorth"
        /\ labyrinth[c].wall_north_
        /\ map_[Step(RoomCell(c), "kNorth")].exit_

\* Both conversions succeed from the logical Coordinate c.
ValidLogical(c) == 0 <= c.x /\ c.x < x_size_ /\ 0 <= c.y /\ c.y < y_size_

\* The physical Coordinate c lies outside the map.
OutsideMap(c) ==
    c.x < 0 \/ c.x >= 2 * x_size_ + 1 \/ c.y < 0 \/ c.y >= 2 * y_size_ + 1

BothOdd(c) == c.x % 2 = 1 /\ c.y % 2 = 1

\* C5: for every valid logical Coordinate (x, y), LabyrinthToMap succeeds
\* and yields (2x+1, 2y+1), a Room cell inside the map, and MapToLabyrinth
\* applied to that succeeds and yields (x, y) again.
C5_RoundTrip ==
    /\ (call.op = "LabyrinthToMap" /\ ValidLogical(call.before)) =>
        /\ result.status = "ok"
        /\ coord = Coordinate(2 * call.before.x + 1, 2 * call.before.y + 1)
        /\ ~OutsideMap(coord)
        /\ IsRoom(coord) = Return(TRUE)
    /\ (/\ call.op = "MapToLabyrinth"
        /\ call.prev.op = "LabyrinthToMap"
        /\ ValidLogical(call.prev.before)) =>
        /\ call.prev.status = "ok"
        /\ result.status = "ok"
        /\ coord = call.prev.before

\* C5's case: (1,1) of a 2 by 2 Labyrinth went to the map and back.
C5_Witness ==
    /\ x_size_ = 2
    /\ y_size_ = 2
    /\ call.op = "MapToLabyrinth"
    /\ call.prev.op = "LabyrinthToMap"
    /\ call.prev.before = Coordinate(1, 1)
    /\ call.before = Coordinate(3, 3)
    /\ coord = Coordinate(1, 1)

\* The cell methods only a Room cell has, and those only a Border cell has.
RoomOnly == {"HasInhabitant", "SetInhabitant", "HasTreasure", "SetTreasure"}

BorderOnly == {"IsWall", "RemoveWall", "IsExit", "SetExit"}

\* C6: a Room-only method called on a Border cell, and a Border-only method
\* called on a Room cell, throws logic_error and leaves the cell as it was.
C6_WrongVariantThrows ==
    (\/ (call.op \in RoomOnly /\ call.before.kind = "Border")
     \/ (call.op \in BorderOnly /\ call.before.kind = "Room")) =>
        /\ result.status = "logic_error"
        /\ cell = call.before

\* C6's case: HasTreasure was called on a Border cell some of whose walls
\* had been removed.
C6_Witness ==
    /\ call.op = "HasTreasure"
    /\ call.before.kind = "Border"
    /\ ~call.before.wall_east_
    /\ result.status = "logic_error"

\* C7: before any Update(), every Border cell of the map answers true to
\* IsWall for North, East, South and West and false to IsExit, and every
\* Room cell has inhabitant None and no treasure.
C7_FreshMap ==
    updates = 0 =>
        \A p \in DOMAIN map_ :
            IF map_[p].kind = "Border"
            THEN /\ \A d \in CardinalSet : WallIs(map_[p], d, TRUE)
                 /\ ExitIs(map_[p], FALSE)
            ELSE /\ HasInhabitant(map_[p]) = CellReturn("kNone", map_[p])
                 /\ HasTreasure(map_[p]) = CellReturn(FALSE, map_[p])

\* C7's case: a map just allocated for a Labyrinth that has an open wall
\* and an exit.
C7_Witness ==
    /\ updates = 0
    /\ call.op = "none"
    /\ \E c \in DOMAIN labyrinth :
        ~labyrinth[c].wall_east_ /\ labyrinth[c].exit_ = "kNorth"

\* C8: IsRoom(c) and MapToLabyrinth(c) throw domain_error for every c outside
\* [0, 2*x_size+1) x [0, 2*y_size+1); for c inside, IsRoom(c) is true iff
\* both coordinates are odd, and MapToLabyrinth(c) throws logic_error when c
\* is a Border cell.
C8_BoundsAndParity ==
    /\ (call.op \in {"IsRoom", "MapToLabyrinth"} /\ OutsideMap(call.before)) =>
        result.status = "domain_error"
    /\ (call.op = "IsRoom" /\ ~OutsideMap(call.before)) =>
        result = Return(BothOdd(call.before))
    /\ (call.op = "MapToLabyrinth" /\ ~OutsideMap(call.before)
            /\ ~BothOdd(call.before)) =>
        result.status = "logic_error"

\* C8's case: IsRoom was called on the first Coordinate past the map's edge.
C8_Witness ==
    /\ call.op = "IsRoom"
    /\ call.before.x = 2 * x_size_ + 1
    /\ call.before.y = 1
    /\ result.status = "domain_error"

\* C9: right after every Update(), whatever SetInhabitant, SetItem and
\* Update calls came before, the Room cell of every Room answers the Room's
\* GetInhabitant() to HasInhabitant() and (GetItem() != None) to
\* HasTreasure().
C9_RoomCellsSynchronised ==
    call.op = "Update" =>
        \A c \in DOMAIN labyrinth :
            LET rc == map_[RoomCell(c)]
            IN  /\ HasInhabitant(rc).status = "ok"
                /\ HasInhabitant(rc).value = GetInhabitant(labyrinth[c])
                /\ HasTreasure(rc).status = "ok"
                /\ HasTreasure(rc).value = (GetItem(labyrinth[c]) # "kNone")

\* C9's case: an Update() reset a Room cell that showed an inhabitant and
\* the treasure, its Room having lost both since the Update() before.
C9_Witness ==
    /\ call.op = "Update"
    /\ updates = 2
    /\ \E c \in DOMAIN labyrinth :
        /\ call.before[RoomCell(c)].i_ = "kMinotaur"
        /\ call.before[RoomCell(c)].treasure_
        /\ map_[RoomCell(c)].i_ = "kNone"
        /\ ~map_[RoomCell(c)].treasure_

\* Every Room next to Border cell p reports Wall towards it.
AllReportWall(p) ==
    \A c \in DOMAIN labyrinth, d \in CardinalSet :
        Step(RoomCell(c), d) = p => DirectionCheck(labyrinth[c], d) = Return("kWall")

\* C10: an Update() after the first leaves every Border cell's four wall
\* flags and exit flag as they were; no Update() puts back a wall flag that
\* was removed; and a Border cell towards which every Room next to it
\* reports Wall (every corner cell is one) is fully walled.
C10_UpdateIdempotent ==
    /\ (call.op = "Update" /\ updates >= 2) =>
        \A p \in BorderCells : map_[p] = call.before[p]
    /\ call.op = "Update" =>
        \A p \in BorderCells, d \in CardinalSet :
            WallIs(call.before[p], d, FALSE) => WallIs(map_[p], d, FALSE)
    /\ \A p \in BorderCells :
        AllReportWall(p) => \A d \in CardinalSet : WallIs(map_[p], d, TRUE)

\* C10's case: a second Update() has run on a map with a removed wall and an
\* exit.
C10_Witness ==
    /\ call.op = "Update"
    /\ updates = 2
    /\ \E p \in BorderCells : ~map_[p].wall_east_ /\ ~call.before[p].wall_east_
    /\ \E p \in BorderCells : map_[p].exit_
    /\ \E p \in BorderCells : ~AllReportWall(p)

====
